---- MODULE Spec2Model ----
(* A model of the todo command-line application: the four tables of         *)
(* app/models.py held in one SQLite file, and the command handlers of       *)
(* app/cli.py, each run in its own session (one command = one step).        *)
(*                                                                          *)
(* Storage semantics the handlers rely on and that are modelled here:       *)
(*  - integer primary keys are SQLite rowids: a new row gets max(id)+1,     *)
(*    so the id of a deleted last row is handed out again;                  *)
(*  - user.username and user.email carry UNIQUE indexes, todo.user_id is    *)
(*    NOT NULL; SQLite does not enforce FOREIGN KEY clauses unless asked;   *)
(*  - an exception leaving the "with get_session()" block closes the        *)
(*    session, which rolls the open transaction back;                       *)
(*  - deleting a User flushes "UPDATE todo SET user_id = NULL" for the rows *)
(*    of User.todos (no delete cascade is configured), deleting a Todo      *)
(*    flushes the delete of its TodoCategory rows (link_model);             *)
(*  - a SELECT without ORDER BY scans the table in rowid order.             *)
(*                                                                          *)
(* get_partial_user, a read-only substring search, is not modelled.         *)
EXTENDS Integers, Sequences, FiniteSets, TLC

VARIABLES
    db,     \* the database file: [user, todo, category, todocategory]
    prev,   \* the database as the last command found it
    last    \* the last command: [op, args, out]

vars == <<db, prev, last>>

----------------------------------------------------------------------------
(* Bounds of the model *)

MaxUserId == 2
MaxTodoId == 2
MaxCategoryId == 1
MaxCatTodoId == 1
MaxCatCategoryId == 2
MaxPageUserId == 4
MaxLimit == 2

Usernames == {"bob", "alice"}
Emails == {"bob@mail.com", "alice@mail.com"}
Passwords == {"bobpass"}
TaskTexts == {"task"}
CategoryTexts == {"work"}
CatTexts == {"work", "home"}
TodoIds == 1..MaxTodoId

\* username/email pairs the pagination runs create their users from
Accounts ==
    { <<"bob", "bob@mail.com">>, <<"alice", "alice@mail.com">>,
      <<"carol", "carol@mail.com">>, <<"dave", "dave@mail.com">> }

Limits == (0 - 1)..MaxLimit
Offsets == (0 - 1)..MaxLimit

----------------------------------------------------------------------------
(* Helpers *)

MaxOf(S) == CHOOSE m \in S : \A x \in S : x <= m

MinOf(S) == CHOOSE m \in S : \A x \in S : m <= x

\* the rowid SQLite gives the next inserted row
NextId(rows) == IF rows = {} THEN 1 ELSE MaxOf({r.id : r \in rows}) + 1

\* the rows of a table in rowid order
RECURSIVE SortById(_)
SortById(rows) ==
    IF rows = {} THEN <<>>
    ELSE LET lo == MinOf({r.id : r \in rows})
             r == CHOOSE x \in rows : x.id = lo
         IN <<r>> \o SortById(rows \ {r})

InSeq(x, s) == \E i \in 1..Len(s) : s[i] = x

\* what a command leaves behind: the database and what it printed or raised
Res(d, exit, msg, rows) ==
    [db |-> d, out |-> [exit |-> exit, msg |-> msg, rows |-> rows]]

EmptyDb == [user |-> {}, todo |-> {}, category |-> {}, todocategory |-> {}]

----------------------------------------------------------------------------
(* app/models.py *)

\* User.set_password: the stored password is a hash, never the plain text
set_password(password) == <<"hash", password>>

NewUser(id, username, email, password) ==
    [id |-> id, username |-> username, email |-> email,
     password |-> set_password(password)]

\* (variant) only the username index is checked
UniqueViolation_UsernameOnly(users, id, username, email) ==
    \E u \in users : u.id # id /\ u.username = username

\* the UNIQUE indexes of user.username and user.email, checked against the
\* other rows of the table
UniqueViolation(users, id, username, email) ==
    \E u \in users : u.id # id /\ (u.username = username \/ u.email = email)

NewTodo(id, user_id, text) ==
    [id |-> id, user_id |-> user_id, text |-> text, done |-> FALSE]

\* (variant) toggle marks the todo done instead of flipping it
toggle_SetDone(todo) == [todo EXCEPT !.done = TRUE]

\* Todo.toggle
toggle(todo) == [todo EXCEPT !.done = ~todo.done]

NewCategory(id, user_id, text) == [id |-> id, user_id |-> user_id, text |-> text]

NewTodoCategory(todo_id, category_id) ==
    [todo_id |-> todo_id, category_id |-> category_id]

\* Todo.user: the User row todo.user_id names, None when there is none
TodoUser(d, todo) == {u \in d.user : u.id = todo.user_id}

\* User.todos
UserTodos(d, user) == {t \in d.todo : t.user_id = user.id}

\* Todo.categories, through the TodoCategory link rows
TodoCategories(d, todo) ==
    {c \in d.category :
        NewTodoCategory(todo.id, c.id) \in d.todocategory}

----------------------------------------------------------------------------
(* app/cli.py: each handler maps the database it finds to the database it   *)
(* leaves and its output                                                    *)

UserByName(d, username) == {u \in d.user : u.username = username}

initialize(d) ==
    Res([EmptyDb EXCEPT !.user = {NewUser(1, "bob", "bob@mail.com", "bobpass")}],
        "ok", "Database Initialized", <<>>)

get_user(d, username) ==
    LET found == UserByName(d, username)
    IN IF found = {} THEN Res(d, "ok", "{username} not found!", <<>>)
       ELSE Res(d, "ok", "user", <<CHOOSE u \in found : TRUE>>)

get_all_users(d) ==
    IF d.user = {} THEN Res(d, "ok", "No users found", <<>>)
    ELSE Res(d, "ok", "users", SortById(d.user))

\* (variant) the update is committed whatever the other rows hold
change_email_Unchecked(d, username, new_email) ==
    LET found == UserByName(d, username)
    IN IF found = {}
       THEN Res(d, "ok", "{username} not found! Unable to update email.", <<>>)
       ELSE LET user == CHOOSE u \in found : TRUE
                changed == [user EXCEPT !.email = new_email]
            IN Res([d EXCEPT !.user = (@ \ {user}) \cup {changed}],
                   "ok", "Updated {username}'s email to {email}", <<changed>>)

change_email(d, username, new_email) ==
    LET found == UserByName(d, username)
    IN IF found = {}
       THEN Res(d, "ok", "{username} not found! Unable to update email.", <<>>)
       ELSE LET user == CHOOSE u \in found : TRUE
                changed == [user EXCEPT !.email = new_email]
            IN IF UniqueViolation(d.user, user.id, user.username, new_email)
               THEN Res(d, "IntegrityError", "", <<>>)
               ELSE Res([d EXCEPT !.user = (@ \ {user}) \cup {changed}],
                        "ok", "Updated {username}'s email to {email}", <<changed>>)

create_user(d, username, email, password) ==
    LET new_user == NewUser(NextId(d.user), username, email, password)
    IN IF UniqueViolation(d.user, new_user.id, username, email)
       THEN Res(d, "ok",
                "Error: A user with the username '{username}' already exists.", <<>>)
       ELSE Res([d EXCEPT !.user = @ \cup {new_user}], "ok", "user", <<new_user>>)

\* (variant) the user row is deleted and its todos are left as they are
delete_user_Orphaning(d, username) ==
    LET found == UserByName(d, username)
    IN IF found = {}
       THEN Res(d, "ok", "{username} not found! Unable to delete user.", <<>>)
       ELSE Res([d EXCEPT !.user = @ \ found], "ok", "Deleted user {username}", <<>>)

delete_user(d, username) ==
    LET found == UserByName(d, username)
    IN IF found = {}
       THEN Res(d, "ok", "{username} not found! Unable to delete user.", <<>>)
       ELSE LET user == CHOOSE u \in found : TRUE
            IN IF UserTodos(d, user) # {}
               THEN Res(d, "IntegrityError", "", <<>>)
               ELSE Res([d EXCEPT !.user = @ \ {user}],
                        "ok", "Deleted user {username}", <<>>)

\* (variant) the slice starts one row late
LimitOffset_OffByOne(rows, limit, offset) ==
    LET skip == IF offset < 0 THEN 0 ELSE offset
        rest == SubSeq(rows, skip + 2, Len(rows))
    IN IF limit < 0 \/ limit >= Len(rest) THEN rest ELSE SubSeq(rest, 1, limit)

\* LIMIT/OFFSET as SQLite applies them to the scanned rows: a negative
\* OFFSET skips nothing, a negative LIMIT sets no upper bound
LimitOffset(rows, limit, offset) ==
    LET skip == IF offset < 0 THEN 0 ELSE offset
        rest == SubSeq(rows, skip + 1, Len(rows))
    IN IF limit < 0 \/ limit >= Len(rest) THEN rest ELSE SubSeq(rest, 1, limit)

get_paginated(d, limit, offset) ==
    LET users == LimitOffset(SortById(d.user), limit, offset)
    IN IF users = <<>>
       THEN Res(d, "ok", "No users found with the given pagination parameters.", <<>>)
       ELSE Res(d, "ok", "users", users)

add_task(d, username, task) ==
    LET found == UserByName(d, username)
    IN IF found = {} THEN Res(d, "ok", "User doesn't exist", <<>>)
       ELSE LET user == CHOOSE u \in found : TRUE
                todo == NewTodo(NextId(d.todo), user.id, task)
            IN Res([d EXCEPT !.todo = @ \cup {todo}], "ok", "Task added for user", <<>>)

\* (variant) the owner is not compared with the given username
toggle_todo_AnyOwner(d, todo_id, username) ==
    LET found == {t \in d.todo : t.id = todo_id}
    IN IF found = {} THEN Res(d, "ok", "This todo doesn't exist", <<>>)
       ELSE LET todo == CHOOSE t \in found : TRUE
            IN Res([d EXCEPT !.todo = (@ \ {todo}) \cup {toggle(todo)}],
                   "ok", "Todo item's done state set to {done}", <<toggle(todo)>>)

toggle_todo(d, todo_id, username) ==
    LET found == {t \in d.todo : t.id = todo_id}
    IN IF found = {} THEN Res(d, "ok", "This todo doesn't exist", <<>>)
       ELSE LET todo == CHOOSE t \in found : TRUE
                owner == TodoUser(d, todo)
            IN IF owner = {} THEN Res(d, "AttributeError", "", <<>>)
               ELSE IF (CHOOSE u \in owner : TRUE).username # username
               THEN Res(d, "ok", "This todo doesn't belong to {username}", <<>>)
               ELSE Res([d EXCEPT !.todo = (@ \ {todo}) \cup {toggle(todo)}],
                        "ok", "Todo item's done state set to {done}",
                        <<toggle(todo)>>)

list_todo_categories(d, todo_id, username) ==
    LET found == {t \in d.todo : t.id = todo_id}
    IN IF found = {} THEN Res(d, "ok", "Todo doesn't exist", <<>>)
       ELSE LET todo == CHOOSE t \in found : TRUE
                owner == TodoUser(d, todo)
            IN IF owner = {} THEN Res(d, "AttributeError", "", <<>>)
               ELSE IF (CHOOSE u \in owner : TRUE).username # username
               THEN Res(d, "ok", "Todo doesn't belong to that user", <<>>)
               ELSE Res(d, "ok", "Categories: {categories}",
                        SortById(TodoCategories(d, todo)))

\* the category rows a handler's one_or_none() lookup selects
CategoryByText(d, user, text) ==
    {c \in d.category : c.text = text /\ c.user_id = user.id}

\* (variant) the category is created without looking for an existing one
create_category_NoLookup(d, username, cat_text) ==
    LET found == UserByName(d, username)
    IN IF found = {} THEN Res(d, "ok", "User doesn't exist", <<>>)
       ELSE LET user == CHOOSE u \in found : TRUE
                category == NewCategory(NextId(d.category), user.id, cat_text)
            IN Res([d EXCEPT !.category = @ \cup {category}],
                   "ok", "Category added for user", <<>>)

create_category(d, username, cat_text) ==
    LET found == UserByName(d, username)
    IN IF found = {} THEN Res(d, "ok", "User doesn't exist", <<>>)
       ELSE LET user == CHOOSE u \in found : TRUE
                cats == CategoryByText(d, user, cat_text)
                category == NewCategory(NextId(d.category), user.id, cat_text)
            IN IF Cardinality(cats) > 1 THEN Res(d, "MultipleResultsFound", "", <<>>)
               ELSE IF cats # {}
               THEN Res(d, "ok", "Category exists! Skipping creation", <<>>)
               ELSE Res([d EXCEPT !.category = @ \cup {category}],
                        "ok", "Category added for user", <<>>)

list_user_categories(d, username) ==
    LET found == UserByName(d, username)
    IN IF found = {} THEN Res(d, "ok", "User doesn't exist", <<>>)
       ELSE LET user == CHOOSE u \in found : TRUE
                categories == SortById({c \in d.category : c.user_id = user.id})
            IN Res(d, "ok", "texts",
                   [i \in 1..Len(categories) |-> categories[i].text])

\* (variant) the link row is never written
AppendCategory_NoLink(d, todo, category) == d

\* todo.categories.append(category) and the commit: the link row is written
\* unless the todo already has the category
AppendCategory(d, todo, category) ==
    [d EXCEPT !.todocategory = @ \cup {NewTodoCategory(todo.id, category.id)}]

assign_category_to_todo(d, username, todo_id, category_text) ==
    LET found == UserByName(d, username)
    IN IF found = {} THEN Res(d, "ok", "User doesn't exist", <<>>)
       ELSE LET user == CHOOSE u \in found : TRUE
                cats == CategoryByText(d, user, category_text)
                category == IF cats = {}
                            THEN NewCategory(NextId(d.category), user.id, category_text)
                            ELSE CHOOSE c \in cats : TRUE
                \* the new category is committed before the todo is looked up
                d1 == [d EXCEPT !.category = @ \cup {category}]
                todos == {t \in d1.todo : t.id = todo_id /\ t.user_id = user.id}
            IN IF Cardinality(cats) > 1 THEN Res(d, "MultipleResultsFound", "", <<>>)
               ELSE IF todos = {} THEN Res(d1, "ok", "Todo doesn't exist for user", <<>>)
               ELSE Res(AppendCategory(d1, CHOOSE t \in todos : TRUE, category),
                        "ok", "Added category to todo", <<>>)

\* what a run of assign_category_to_todo can end with. Appending a category
\* the todo already has leaves the link table as it is; whether that commit
\* passes silently or raises on the composite key of TodoCategory rests on
\* how the session reads the history of the two collections (Todo.categories
\* is loaded, Category.todos is not), so both endings are allowed.
assign_category_outcomes(d, username, todo_id, category_text) ==
    LET r == assign_category_to_todo(d, username, todo_id, category_text)
    IN IF r.out.msg = "Added category to todo" /\ r.db.todocategory = d.todocategory
       THEN {r, Res(r.db, "IntegrityError", "", <<>>)}
       ELSE {r}

\* one printed line of list_todos
TodoLine(d, todo) ==
    [id |-> todo.id, text |-> todo.text,
     username |-> (CHOOSE u \in TodoUser(d, todo) : TRUE).username,
     done |-> todo.done]

list_todos(d) ==
    LET todos == SortById(d.todo)
    IN IF \E t \in d.todo : TodoUser(d, t) = {}
       THEN Res(d, "AttributeError", "", <<>>)
       ELSE Res(d, "ok", "todos", [i \in 1..Len(todos) |-> TodoLine(d, todos[i])])

\* (variant) a todo that has link rows is not deleted
delete_todo_LinkedKept(d, todo_id) ==
    LET found == {t \in d.todo : t.id = todo_id}
    IN IF found = {}
       THEN Res(d, "ok", "Todo with ID {todo_id} does not exist", <<>>)
       ELSE IF \E l \in d.todocategory : l.todo_id = todo_id
       THEN Res(d, "IntegrityError", "", <<>>)
       ELSE Res([d EXCEPT !.todo = @ \ found], "ok", "Todo with ID {todo_id} deleted", <<>>)

delete_todo(d, todo_id) ==
    LET found == {t \in d.todo : t.id = todo_id}
    IN IF found = {}
       THEN Res(d, "ok", "Todo with ID {todo_id} does not exist", <<>>)
       ELSE Res([d EXCEPT !.todo = @ \ found,
                          !.todocategory = {l \in @ : l.todo_id # todo_id}],
                "ok", "Todo with ID {todo_id} deleted", <<>>)

\* (variant) every todo of the table is marked, whoever owns it
complete_all_EveryTodo(d, username) ==
    LET found == UserByName(d, username)
    IN IF found = {} THEN Res(d, "ok", "User {username} does not exist", <<>>)
       ELSE Res([d EXCEPT !.todo = {[t EXCEPT !.done = TRUE] : t \in @}],
                "ok", "All todos for {username} marked as complete", <<>>)

complete_all(d, username) ==
    LET found == UserByName(d, username)
    IN IF found = {} THEN Res(d, "ok", "User {username} does not exist", <<>>)
       ELSE LET user == CHOOSE u \in found : TRUE
            IN Res([d EXCEPT !.todo =
                        {IF t \in UserTodos(d, user) THEN [t EXCEPT !.done = TRUE] ELSE t
                            : t \in @}],
                   "ok", "All todos for {username} marked as complete", <<>>)

----------------------------------------------------------------------------
(* The state machine. The commands run one after the other, each in a       *)
(* process of its own: Run is one handler from its first query to its last  *)
(* print, Exit is the end of that process, after which the next command     *)
(* finds nothing but the database file.                                     *)

NoCmd == [op |-> "", args |-> <<>>, out |-> [exit |-> "", msg |-> "", rows |-> <<>>]]

\* rowids stay within the bounds of the model
InBounds(d) ==
    /\ \A u \in d.user : u.id <= MaxUserId
    /\ \A t \in d.todo : t.id <= MaxTodoId
    /\ \A c \in d.category : c.id <= MaxCategoryId

PageInBounds(d) == \A u \in d.user : u.id <= MaxPageUserId

Run(op, args, r) ==
    /\ last = NoCmd
    /\ db' = r.db
    /\ prev' = db
    /\ last' = [op |-> op, args |-> args, out |-> r.out]

\* the database file as the initialize command creates it
Init ==
    /\ db = initialize(EmptyDb).db
    /\ prev = db
    /\ last = NoCmd

Exit ==
    /\ last # NoCmd
    /\ db' = db
    /\ prev' = db
    /\ last' = NoCmd

Initialize == Run("initialize", <<>>, initialize(db))

GetUser == \E u \in Usernames : Run("get_user", <<u>>, get_user(db, u))

GetAllUsers == Run("get_all_users", <<>>, get_all_users(db))

ChangeEmail ==
    \E u \in Usernames, e \in Emails :
        Run("change_email", <<u, e>>, change_email(db, u, e))

CreateUser ==
    \E u \in Usernames, e \in Emails, p \in Passwords :
        /\ InBounds(create_user(db, u, e, p).db)
        /\ Run("create_user", <<u, e, p>>, create_user(db, u, e, p))

DeleteUser == \E u \in Usernames : Run("delete_user", <<u>>, delete_user(db, u))

GetPaginated ==
    \E l \in Limits, o \in Offsets :
        Run("get_paginated", <<l, o>>, get_paginated(db, l, o))

AddTask ==
    \E u \in Usernames, t \in TaskTexts :
        /\ InBounds(add_task(db, u, t).db)
        /\ Run("add_task", <<u, t>>, add_task(db, u, t))

ToggleTodo ==
    \E i \in TodoIds, u \in Usernames :
        Run("toggle_todo", <<i, u>>, toggle_todo(db, i, u))

ListTodoCategories ==
    \E i \in TodoIds, u \in Usernames :
        Run("list_todo_categories", <<i, u>>, list_todo_categories(db, i, u))

CreateCategory ==
    \E u \in Usernames, c \in CategoryTexts :
        /\ InBounds(create_category(db, u, c).db)
        /\ Run("create_category", <<u, c>>, create_category(db, u, c))

ListUserCategories ==
    \E u \in Usernames :
        Run("list_user_categories", <<u>>, list_user_categories(db, u))

AssignCategoryToTodo ==
    \E u \in Usernames, i \in TodoIds, c \in CategoryTexts :
        \E r \in assign_category_outcomes(db, u, i, c) :
            /\ InBounds(r.db)
            /\ Run("assign_category_to_todo", <<u, i, c>>, r)

ListTodos == Run("list_todos", <<>>, list_todos(db))

DeleteTodo == \E i \in TodoIds : Run("delete_todo", <<i>>, delete_todo(db, i))

CompleteAll == \E u \in Usernames : Run("complete_all", <<u>>, complete_all(db, u))

Next ==
    \/ Initialize
    \/ GetUser
    \/ GetAllUsers
    \/ ChangeEmail
    \/ CreateUser
    \/ DeleteUser
    \/ AddTask
    \/ ToggleTodo
    \/ ListTodoCategories
    \/ CreateCategory
    \/ ListUserCategories
    \/ AssignCategoryToTodo
    \/ ListTodos
    \/ DeleteTodo
    \/ CompleteAll
    \/ Exit

Spec == Init /\ [][Next]_vars

(* The commands that write or page the user table, over more accounts: the  *)
(* runs that fill the table for get_paginated, which reads no other table.  *)

PageCreateUser ==
    \E a \in Accounts, p \in Passwords :
        /\ PageInBounds(create_user(db, a[1], a[2], p).db)
        /\ Run("create_user", <<a[1], a[2], p>>, create_user(db, a[1], a[2], p))

PageDeleteUser ==
    \E a \in Accounts : Run("delete_user", <<a[1]>>, delete_user(db, a[1]))

PageNext ==
    \/ PageCreateUser
    \/ PageDeleteUser
    \/ GetPaginated
    \/ Exit

PageSpec == Init /\ [][PageNext]_vars

(* The commands that write users, todos and categories, over more category *)
(* rows and texts and fewer todos: the runs that fill the category table.   *)

CatInBounds(d) ==
    /\ \A u \in d.user : u.id <= MaxUserId
    /\ \A t \in d.todo : t.id <= MaxCatTodoId
    /\ \A c \in d.category : c.id <= MaxCatCategoryId

CatCreateUser ==
    \E a \in {x \in Accounts : x[1] \in Usernames}, p \in Passwords :
        /\ CatInBounds(create_user(db, a[1], a[2], p).db)
        /\ Run("create_user", <<a[1], a[2], p>>, create_user(db, a[1], a[2], p))

CatAddTask ==
    \E u \in Usernames, t \in TaskTexts :
        /\ CatInBounds(add_task(db, u, t).db)
        /\ Run("add_task", <<u, t>>, add_task(db, u, t))

CatCreateCategory ==
    \E u \in Usernames, c \in CatTexts :
        /\ CatInBounds(create_category(db, u, c).db)
        /\ Run("create_category", <<u, c>>, create_category(db, u, c))

CatAssignCategoryToTodo ==
    \E u \in Usernames, i \in TodoIds, c \in CatTexts :
        \E r \in assign_category_outcomes(db, u, i, c) :
            /\ CatInBounds(r.db)
            /\ Run("assign_category_to_todo", <<u, i, c>>, r)

CatNext ==
    \/ Initialize
    \/ CatCreateUser
    \/ DeleteUser
    \/ CatAddTask
    \/ DeleteTodo
    \/ CatCreateCategory
    \/ CatAssignCategoryToTodo
    \/ Exit

CatSpec == Init /\ [][CatNext]_vars

----------------------------------------------------------------------------
(* Properties. In a state reached by Run, prev is the database the command  *)
(* found, db the database it left and last what it was and what it printed. *)

Ran(op) == last.op = op

Printed(msg) == last.out.exit = "ok" /\ last.out.msg = msg

\* the todo rows of database d that carry the id
TodoById(d, id) == {t \in d.todo : t.id = id}

\* the usernames of the owner of a todo in database d (none for an orphan)
OwnerNames(d, todo) == {u.username : u \in {x \in d.user : x.id = todo.user_id}}

\* C1: create_user with a username or an email that a stored user already
\* has adds no row and leaves every user record (and the rest of the
\* database) as it was; it reports the error, and running the same command
\* again on the resulting database leaves that database unchanged too.
C1_DuplicateCreateUserFails ==
    (/\ Ran("create_user")
     /\ \E u \in prev.user : u.username = last.args[1] \/ u.email = last.args[2])
    => /\ db = prev
       /\ Printed("Error: A user with the username '{username}' already exists.")
       /\ create_user(db, last.args[1], last.args[2], last.args[3]).db = db

\* a create_user that found its email, but not its username, taken
C1_Witness ==
    /\ Ran("create_user")
    /\ \E u \in prev.user : u.email = last.args[2]
    /\ \A u \in prev.user : u.username # last.args[1]

\* C2: no two stored users share a username, and no two share an email,
\* whatever commands have run (change_email included).
C2_UsernamesAndEmailsUnique ==
    \A u, v \in db.user :
        (u.username = v.username \/ u.email = v.email) => u = v

\* a change_email to an address another stored user holds
C2_Witness ==
    /\ Ran("change_email")
    /\ \E u, v \in prev.user :
          /\ u.username = last.args[1]
          /\ v # u
          /\ v.email = last.args[2]

\* C3: after toggle_todo(todo_id, username) has run on an existing todo of
\* that user, running it once more gives back the database the first run
\* found: the done flag has its old value and nothing else differs.
C3_ToggleTwiceRestores ==
    (/\ Ran("toggle_todo")
     /\ \E t \in TodoById(prev, last.args[1]) : last.args[2] \in OwnerNames(prev, t))
    => /\ db # prev
       /\ toggle_todo(db, last.args[1], last.args[2]).db = prev

\* a toggle_todo that flipped one of two stored todos, from not done to done
C3_Witness ==
    /\ Ran("toggle_todo")
    /\ Cardinality(prev.todo) = 2
    /\ \E t \in TodoById(prev, last.args[1]) :
          /\ last.args[2] \in OwnerNames(prev, t)
          /\ ~t.done
    /\ \E t \in TodoById(db, last.args[1]) : t.done

\* C4: toggle_todo reports that the todo does not exist when no todo has the
\* id, and that it does not belong to the user when its owner has another
\* username, and in both cases leaves the database as it was; when the todo
\* exists and is owned by the username, exactly its done flag is flipped.
C4_ToggleTodoOutcomes ==
    Ran("toggle_todo") =>
        LET found == TodoById(prev, last.args[1])
        IN /\ found = {} =>
                /\ Printed("This todo doesn't exist")
                /\ db = prev
           /\ \A t \in found :
                /\ (OwnerNames(prev, t) # {} /\ last.args[2] \notin OwnerNames(prev, t)) =>
                      /\ Printed("This todo doesn't belong to {username}")
                      /\ db = prev
                /\ last.args[2] \in OwnerNames(prev, t) =>
                      db = [prev EXCEPT !.todo = (@ \ {t}) \cup {[t EXCEPT !.done = ~t.done]}]
           /\ db # prev =>
                \E t \in found : last.args[2] \in OwnerNames(prev, t)

\* a toggle_todo of a stored todo by a stored user who does not own it
C4_Witness ==
    /\ Ran("toggle_todo")
    /\ \E t \in TodoById(prev, last.args[1]) :
          /\ OwnerNames(prev, t) # {}
          /\ last.args[2] \notin OwnerNames(prev, t)
    /\ \E u \in prev.user : u.username = last.args[2]

\* C5: complete_all(username) of a stored user leaves each of that user's
\* todos done and otherwise as it was, leaves the todos of the other users
\* and the other tables as they were, and running it again on the resulting
\* database changes nothing.
C5_CompleteAllIdempotent ==
    Ran("complete_all") =>
        \A u \in prev.user :
            u.username = last.args[1] =>
                /\ db.todo = {IF t.user_id = u.id THEN [t EXCEPT !.done = TRUE] ELSE t
                                  : t \in prev.todo}
                /\ [db EXCEPT !.todo = prev.todo] = prev
                /\ complete_all(db, last.args[1]).db = db

\* a complete_all of a user who had a todo not done, while another user's
\* todo was not done either
C5_Witness ==
    /\ Ran("complete_all")
    /\ \E u \in prev.user, t1, t2 \in prev.todo :
          /\ u.username = last.args[1]
          /\ t1.user_id = u.id /\ ~t1.done
          /\ t2.user_id # u.id /\ ~t2.done

\* C6: assign_category_to_todo(username, todo_id, category_text) of a stored
\* user who owns the todo and has no category of that text adds exactly one
\* category row, of that user and text, and the link row between the todo
\* and it; list_user_categories(username) then prints the text and
\* list_todo_categories(todo_id, username) prints the category.
C6_AssignCreatesAndLinks ==
    Ran("assign_category_to_todo") =>
        \A u \in prev.user, t \in TodoById(prev, last.args[2]) :
            (/\ u.username = last.args[1]
             /\ t.user_id = u.id
             /\ ~\E c \in prev.category : c.user_id = u.id /\ c.text = last.args[3])
            => \E c \in db.category :
                 /\ c \notin prev.category
                 /\ c.user_id = u.id /\ c.text = last.args[3]
                 /\ db.category = prev.category \cup {c}
                 /\ [todo_id |-> t.id, category_id |-> c.id] \in db.todocategory
                 /\ InSeq(c.text, list_user_categories(db, last.args[1]).out.rows)
                 /\ InSeq(c, list_todo_categories(db, last.args[2], last.args[1]).out.rows)

\* an assign_category_to_todo that found the user's todo and no category
C6_Witness ==
    /\ Ran("assign_category_to_todo")
    /\ \E u \in prev.user, t \in TodoById(prev, last.args[2]) :
          /\ u.username = last.args[1]
          /\ t.user_id = u.id
          /\ ~\E c \in prev.category : c.user_id = u.id /\ c.text = last.args[3]
    /\ Cardinality(prev.user) = 2

\* the users at positions offset .. offset+limit-1 (counted from 0) of the
\* stored order, the rowid order of the table
Page(d, limit, offset) ==
    LET order == SortById(d.user)
        last_pos == IF offset + limit < Len(order) THEN offset + limit ELSE Len(order)
    IN [i \in 1..(IF last_pos > offset THEN last_pos - offset ELSE 0) |-> order[offset + i]]

SeqRange(s) == {s[i] : i \in 1..Len(s)}

\* C7 (as amended): get_paginated(limit, offset) with limit >= 0 and
\* offset >= 0 prints the users at positions offset .. offset+limit-1 of the
\* stored order, at most limit of them, and changes nothing; over exactly 4
\* stored users the pages (2, 0) and (2, 2) hold 2 users each, share no
\* user and together hold all 4.
C7_PaginatedSlice ==
    Ran("get_paginated") =>
        /\ db = prev
        /\ (last.args[1] >= 0 /\ last.args[2] >= 0) =>
              /\ last.out.rows = Page(prev, last.args[1], last.args[2])
              /\ Len(last.out.rows) <= last.args[1]
        /\ (Cardinality(prev.user) = 4 /\ last.args \in {<<2, 0>>, <<2, 2>>}) =>
              LET mine == last.out.rows
                  other == get_paginated(db, 2, 2 - last.args[2]).out.rows
              IN /\ Len(mine) = 2 /\ Len(other) = 2
                 /\ Cardinality(SeqRange(mine)) = 2
                 /\ Cardinality(SeqRange(other)) = 2
                 /\ SeqRange(mine) \cap SeqRange(other) = {}
                 /\ SeqRange(mine) \cup SeqRange(other) = db.user

\* the second page of two over exactly 4 stored users
C7_Witness ==
    /\ Ran("get_paginated")
    /\ last.args = <<2, 2>>
    /\ Cardinality(prev.user) = 4

\* C7 (as claimed): get_paginated(limit, offset) prints, for every limit and
\* offset, the users at positions offset .. offset+limit-1 of the stored
\* order, at most limit of them.
C7_PaginatedSliceAnyArguments ==
    Ran("get_paginated") =>
        /\ Len(last.out.rows) <= last.args[1]
        /\ \A i \in 1..Len(last.out.rows) :
              /\ last.args[2] + i >= 1
              /\ last.args[2] + i <= Len(SortById(prev.user))
              /\ last.out.rows[i] = SortById(prev.user)[last.args[2] + i]

\* C8: delete_todo(todo_id) of a stored todo, whoever owns it and whether or
\* not categories are linked to it, removes that todo row and no other,
\* leaves users and categories as they were, and list_todos no longer shows
\* the id; for an id no todo has it reports so and changes nothing.
C8_DeleteTodoRemoves ==
    Ran("delete_todo") =>
        LET found == TodoById(prev, last.args[1])
            shown == list_todos(db).out
        IN /\ found = {} =>
                /\ Printed("Todo with ID {todo_id} does not exist")
                /\ db = prev
           /\ found # {} =>
                /\ Printed("Todo with ID {todo_id} deleted")
                /\ db.todo = prev.todo \ found
                /\ db.user = prev.user
                /\ db.category = prev.category
                /\ shown.exit = "ok"
                /\ \A i \in 1..Len(shown.rows) : shown.rows[i].id # last.args[1]

\* a delete_todo of a todo a category was linked to, with another todo stored
C8_Witness ==
    /\ Ran("delete_todo")
    /\ \E l \in prev.todocategory : l.todo_id = last.args[1]
    /\ Cardinality(prev.todo) = 2

\* C9 (as claimed): delete_user(username) of a stored user removes the
\* user's row and leaves every todo and category row as it was, also when
\* the user owns todos.
C9_DeleteUserRemovesRow ==
    (Ran("delete_user") /\ \E u \in prev.user : u.username = last.args[1])
    => /\ ~\E u \in db.user : u.username = last.args[1]
       /\ db.todo = prev.todo
       /\ db.category = prev.category

\* C10: the user_id of every stored todo is the id of a stored user.
C10_TodoOwnerStored ==
    \A t \in db.todo : \E u \in db.user : u.id = t.user_id

\* a delete_user of a user who owns a todo
C10_Witness ==
    /\ Ran("delete_user")
    /\ \E u \in prev.user, t \in prev.todo :
          u.username = last.args[1] /\ t.user_id = u.id

\* C11: no two stored categories have the same user_id and text;
\* create_category for a user who has a category of that text prints that it
\* exists and changes nothing, and assign_category_to_todo for such a user
\* adds no category row and links the user's todo to the existing one.
C11_CategoryUniquePerUser ==
    /\ \A c1, c2 \in db.category :
          (c1.user_id = c2.user_id /\ c1.text = c2.text) => c1 = c2
    /\ Ran("create_category") =>
          \A u \in prev.user, c \in prev.category :
              (u.username = last.args[1] /\ c.user_id = u.id /\ c.text = last.args[2])
              => /\ Printed("Category exists! Skipping creation")
                 /\ db = prev
    /\ Ran("assign_category_to_todo") =>
          \A u \in prev.user, c \in prev.category :
              (u.username = last.args[1] /\ c.user_id = u.id /\ c.text = last.args[3])
              => /\ db.category = prev.category
                 /\ \A t \in TodoById(prev, last.args[2]) :
                       t.user_id = u.id =>
                          db.todocategory = prev.todocategory
                              \cup {[todo_id |-> t.id, category_id |-> c.id]}

\* a create_category of a text the user has, with a second category stored
C11_Witness ==
    /\ Ran("create_category")
    /\ Cardinality(prev.category) = 2
    /\ \E u \in prev.user, c \in prev.category :
          u.username = last.args[1] /\ c.user_id = u.id /\ c.text = last.args[2]

\* C12 (as claimed): every command ends by printing its message and
\* returning normally; no error leaves a handler.
C12_EveryCommandReturnsNormally ==
    last # NoCmd => last.out.exit = "ok"

====
